---- MODULE Spec2Model ----
\* Replay-and-trace of one block (cmd/restapi/apis/retrace_tx_api.go):
\* Retrace resolves the chain configuration, locates the block, wires a
\* reader, an overlay and a recorder, and runBlock drives the transactions,
\* finalization and the traced commit.
EXTENDS Integers, Sequences, FiniteSets, TLC

\* ---------------------------------------------------------------- bounds
\* Largest number of transactions in a block of the modelled chain.
MaxTxs == 2

\* Width of Go's int / uint64, scaled down so that the arithmetic stays inside
\* the model checker's integers; wrap-around and range errors are kept.
IntSize == 16

Word == 2 ^ IntSize
MaxInt == 2 ^ (IntSize - 1) - 1
MinInt == 0 - 2 ^ (IntSize - 1)

\* Replay requests (one Retrace invocation each).
Procs == {1, 2}

\* ------------------------------------------------------------------ data
NoErr == [kind |-> "nil", ref |-> 0, cause |-> "nil"]

\* Keys are byte sequences.
KeyA == <<10>>
KeyB == <<171>>
KeyDao == <<191, 74>>
KeyCoinbase == <<192>>
SlotS == <<10, 1>>
SlotT == <<171, 2>>

Rd(kind, key) == [op |-> "r", kind |-> kind, key |-> key, val |-> 0]
Wr(kind, key, val) == [op |-> "w", kind |-> kind, key |-> key, val |-> val]

\* The transactions the chain's blocks are made of. A transaction is opaque to
\* the replay; the engine's behaviour on it is the op list it issues against
\* the overlay, the gas it needs and whether the engine accepts it.
Tx1 == [hash |-> 1, gas |-> 1, valid |-> TRUE,
        ops |-> <<Rd("acc", KeyA), Rd("acc", KeyB), Wr("acc", KeyA, 11), Wr("sto", SlotS, 12),
                  Rd("sto", SlotT)>>]
Tx2 == [hash |-> 2, gas |-> 2, valid |-> TRUE,
        ops |-> <<Rd("acc", KeyA), Rd("acc", KeyB), Wr("acc", KeyB, 21),
                  Wr("acc", KeyA, 22), Rd("sto", SlotT), Wr("sto", SlotT, 23), Wr("sto", SlotS, 24),
                  Wr("acc", KeyCoinbase, 25)>>]
Tx3 == [hash |-> 3, gas |-> 1, valid |-> FALSE,
        ops |-> <<Rd("acc", KeyB), Wr("acc", KeyB, 31)>>]
TxCatalogue == {Tx1, Tx2, Tx3}

RECURSIVE SeqsUpTo(_, _)
SeqsUpTo(S, n) ==
    IF n = 0 THEN {<<>>}
    ELSE LET shorter == SeqsUpTo(S, n - 1)
         IN shorter \cup {Append(s, x) : s \in {t \in shorter : Len(t) = n - 1}, x \in S}

GasLimits == {3, 4}
\* What the consensus engine and the commit do on a block: all succeed, the
\* end-of-block rule fails, or the flush of the overlay fails.
Fates == {"ok", "finalizeErr", "commitErr"}

MkBlock(number, txs, gasLimit, fate) ==
    [number |-> number, txs |-> txs, gasLimit |-> gasLimit,
     coinbase |-> KeyCoinbase, uncles |-> <<>>, fate |-> fate]

Genesis == MkBlock(0, <<>>, 4, "ok")
Blocks(number) ==
    {MkBlock(number, txs, g, f) : txs \in SeqsUpTo(TxCatalogue, MaxTxs), g \in GasLimits, f \in Fates}

\* params.ChainConfig, reduced to the fields runBlock reads. DAOForkBlock is a
\* *big.Int: <<>> is nil.
ZeroConfig == [DAOForkSupport |-> FALSE, DAOForkBlock |-> <<>>]
MainnetChainConfig == [DAOForkSupport |-> TRUE, DAOForkBlock |-> <<1>>]

MainnetGenesisHash == <<212>>
RopstenGenesisHash == <<65>>
RinkebyGenesisHash == <<99>>
GoerliGenesisHash == <<191>>

\* The configuration of Ropsten (no DAO height) and that of a chain with the
\* mainnet genesis that opposes the DAO fork.
RopstenChainConfig == [DAOForkSupport |-> TRUE, DAOForkBlock |-> <<>>]
ClassicChainConfig == [DAOForkSupport |-> FALSE, DAOForkBlock |-> <<1>>]

\* The keyed store: the config bucket (JSON documents by genesis hash), the
\* canonical chain and the point-in-time state.
\* An entry is a document that decodes (json) to a configuration or does not,
\* or one whose read fails (readErr).
ConfigEntry(c, json, readErr) == [json |-> json, config |-> c, readErr |-> readErr]

ConfigBucket ==
    (MainnetGenesisHash :> ConfigEntry(MainnetChainConfig, TRUE, FALSE))
    @@ (RinkebyGenesisHash :> ConfigEntry(ZeroConfig, FALSE, FALSE))

Stores ==
    {[config |-> ConfigBucket,
      chain |-> <<Genesis, b>>,
      accounts |-> (KeyA :> 1) @@ (KeyDao :> 7),
      storage |-> (SlotS :> 2)] : b \in Blocks(1)}

\* Stores with further config documents: Ropsten's, and either configuration
\* under the mainnet genesis hash. Rinkeby's does not decode; Goerli's is
\* missing or cannot be read.
ConfigBuckets ==
    {(MainnetGenesisHash :> ConfigEntry(c, TRUE, FALSE))
     @@ (RopstenGenesisHash :> ConfigEntry(RopstenChainConfig, TRUE, FALSE))
     @@ g
     @@ ConfigBucket :
        c \in {MainnetChainConfig, ClassicChainConfig},
        g \in {<<>>, GoerliGenesisHash :> ConfigEntry(MainnetChainConfig, TRUE, TRUE)}}
StoresAnyConfig == {[st EXCEPT !.config = cb] : st \in Stores, cb \in ConfigBuckets}

\* ------------------------------------------------------- pure conversions
Digits == {"0", "1", "2", "3", "4", "5", "6", "7", "8", "9"}
DigitVal(c) ==
    CASE c = "0" -> 0 [] c = "1" -> 1 [] c = "2" -> 2 [] c = "3" -> 3 [] c = "4" -> 4
      [] c = "5" -> 5 [] c = "6" -> 6 [] c = "7" -> 7 [] c = "8" -> 8 [] c = "9" -> 9

RECURSIVE ParseDigits(_, _)
ParseDigits(s, acc) ==
    IF s = <<>> THEN acc ELSE ParseDigits(Tail(s), acc * 10 + DigitVal(Head(s)))

\* strconv.Atoi on a string given as its sequence of characters: an optional
\* sign, then one or more decimal digits; a value outside int is a range error.
Atoi(s) ==
    IF s = <<>> THEN [n |-> 0, err |-> [kind |-> "InvalidInput", ref |-> 0, cause |-> "syntax"]]
    ELSE LET signed == Head(s) \in {"-", "+"}
             body == IF signed THEN Tail(s) ELSE s
         IN IF body = <<>> \/ \E i \in 1..Len(body) : body[i] \notin Digits
            THEN [n |-> 0, err |-> [kind |-> "InvalidInput", ref |-> 0, cause |-> "syntax"]]
            ELSE LET m == ParseDigits(body, 0)
                     v == IF Head(s) = "-" THEN 0 - m ELSE m
                 IN IF v > MaxInt \/ v < MinInt
                    THEN [n |-> IF v > MaxInt THEN MaxInt ELSE MinInt,
                          err |-> [kind |-> "InvalidInput", ref |-> 0, cause |-> "range"]]
                    ELSE [n |-> v, err |-> NoErr]

\* The conversion uint64(bn) of a Go int: two's complement wrap-around.
Uint64(n) == (n + Word) % Word

\* The height strings a caller may send.
HeightStrings ==
    {<<"0">>, <<"1">>, <<"2">>, <<"-", "1">>, <<"+", "1">>, <<"1", "a">>, <<>>,
     <<"9", "9", "9", "9", "9">>}
Chains == {"mainnet", "bogus"}
AllChains == {"mainnet", "testnet", "rinkeby", "goerli", "bogus"}


\* --------------------------------------------------- ordered key/value logs
IndexOf(list, key) ==
    IF \E i \in 1..Len(list) : list[i].key = key
    THEN CHOOSE i \in 1..Len(list) : list[i].key = key
    ELSE 0

Keys(list) == [i \in 1..Len(list) |-> list[i].key]

\* ------------------------------------------------ Historical State Reader
\* A reader bound to one height, with its two access logs.
NewRemoteReader(number) == [height |-> number, accountReads |-> <<>>, storageReads |-> <<>>]

ValueAt(bucket, key) == IF key \in DOMAIN bucket THEN bucket[key] ELSE 0

\* A dedup-ing reader: not what the reader does.
ReadAccountData_Dedup(r, store, key) ==
    [reader |-> IF \E i \in 1..Len(r.accountReads) : r.accountReads[i] = key
                THEN r
                ELSE [r EXCEPT !.accountReads = Append(@, key)],
     val |-> ValueAt(store.accounts, key)]

\* Every lookup, found or absent, is appended to the account access log.
ReadAccountData(r, store, key) ==
    [reader |-> [r EXCEPT !.accountReads = Append(@, key)],
     val |-> ValueAt(store.accounts, key)]

ReadAccountStorage(r, store, key) ==
    [reader |-> [r EXCEPT !.storageReads = Append(@, key)],
     val |-> ValueAt(store.storage, key)]

\* ------------------------------------------------------ Change-Set Recorder
NewChangeSetWriter == [acc |-> <<>>, sto |-> <<>>]

\* A first-seen key is appended; a repeated key has its value replaced in place.
RecordChange(list, key, val) ==
    LET i == IndexOf(list, key)
    IN IF i = 0 THEN Append(list, [key |-> key, val |-> val])
       ELSE [list EXCEPT ![i].val = val]

\* The accessors return the change set and an error: a change set takes keys
\* of one size, and the accessor reports keys of different sizes.
AccessorErr(list) ==
    IF \E i, j \in 1..Len(list) : Len(list[i].key) # Len(list[j].key)
    THEN [kind |-> "recorder", ref |-> 0, cause |-> "key size"]
    ELSE NoErr

GetAccountChanges(w) == [Changes |-> w.acc, err |-> AccessorErr(w.acc)]
GetStorageChanges(w) == [Changes |-> w.sto, err |-> AccessorErr(w.sto)]

\* ------------------------------------------------------------- write sinks
\* A state writer is one of: the No-Op Sink, the replay's Change-Set Recorder,
\* a writer into the keyed store. env holds what a sink can change: the
\* recorder of the replay and the store.
WriterUpdate(w, env, kind, key, val) ==
    CASE w = "noop" -> env
      [] w = "changeset" ->
            IF kind = "acc"
            THEN [env EXCEPT !.rec.acc = RecordChange(@, key, val)]
            ELSE [env EXCEPT !.rec.sto = RecordChange(@, key, val)]
      [] w = "db" ->
            IF kind = "acc"
            THEN [env EXCEPT !.store.accounts = (key :> val) @@ @]
            ELSE [env EXCEPT !.store.storage = (key :> val) @@ @]

RECURSIVE WriteAll(_, _, _, _)
WriteAll(w, env, kind, list) ==
    IF list = <<>> THEN env
    ELSE WriteAll(w, WriterUpdate(w, env, kind, Head(list).key, Head(list).val), kind, Tail(list))

\* ---------------------------------------------------- Mutable State Overlay
\* state.New(reader): no pending mutation. The running record s threads the
\* overlay, its reader and what the engine has seen and done so far:
\*   acc, sto   pending mutations, in first-write order
\*   reader     the Historical State Reader the overlay falls through to
\*   obs        the values the engine's reads returned
\*   wrote      every write made to the overlay, in order
\*   asked      every lookup the overlay passed to the reader, in order
NewIntraBlockState(r) ==
    [acc |-> <<>>, sto |-> <<>>, reader |-> r, obs |-> <<>>, wrote |-> <<>>, asked |-> <<>>]

SetPending(list, key, val) ==
    LET i == IndexOf(list, key)
    IN IF i = 0 THEN Append(list, [key |-> key, val |-> val])
       ELSE [list EXCEPT ![i].val = val]

\* A read that asks the reader also for a key with a pending mutation: not
\* what the overlay does.
OverlayRead_AlwaysReader(s, store, kind, key) ==
    LET list == IF kind = "acc" THEN s.acc ELSE s.sto
        i == IndexOf(list, key)
        got == IF kind = "acc"
               THEN ReadAccountData(s.reader, store, key)
               ELSE ReadAccountStorage(s.reader, store, key)
    IN [s EXCEPT !.reader = got.reader,
                 !.obs = Append(@, IF i # 0 THEN list[i].val ELSE got.val),
                 !.asked = Append(@, [kind |-> kind, key |-> key])]

\* A read consults the pending mutations first, then the reader.
OverlayRead(s, store, kind, key) ==
    LET list == IF kind = "acc" THEN s.acc ELSE s.sto
        i == IndexOf(list, key)
    IN IF i # 0
       THEN [s EXCEPT !.obs = Append(@, list[i].val)]
       ELSE LET got == IF kind = "acc"
                       THEN ReadAccountData(s.reader, store, key)
                       ELSE ReadAccountStorage(s.reader, store, key)
            IN [s EXCEPT !.reader = got.reader,
                         !.obs = Append(@, got.val),
                         !.asked = Append(@, [kind |-> kind, key |-> key])]

OverlayWrite(s, kind, key, val) ==
    LET t == IF kind = "acc"
             THEN [s EXCEPT !.acc = SetPending(@, key, val)]
             ELSE [s EXCEPT !.sto = SetPending(@, key, val)]
    IN [t EXCEPT !.wrote = Append(@, [kind |-> kind, key |-> key, val |-> val])]

ExecOp(s, store, o) ==
    IF o.op = "r" THEN OverlayRead(s, store, o.kind, o.key)
    ELSE OverlayWrite(s, o.kind, o.key, o.val)

RECURSIVE ExecOps(_, _, _)
ExecOps(s, store, ops) ==
    IF ops = <<>> THEN s ELSE ExecOps(ExecOp(s, store, Head(ops)), store, Tail(ops))

\* The keys a list of ops writes, with their last values, in first-write order.
RECURSIVE Dirty(_, _, _)
Dirty(ops, kind, acc) ==
    IF ops = <<>> THEN acc
    ELSE LET o == Head(ops)
         IN Dirty(Tail(ops), kind,
                  IF o.op = "w" /\ o.kind = kind THEN SetPending(acc, o.key, o.val) ELSE acc)


\* ------------------------------------------------- external collaborators
\* remotechain.GetBlockByNumber: the block at a height of the canonical chain,
\* or NotFound.
RemoteGetBlockByNumber(store, number) ==
    IF number + 1 \in DOMAIN store.chain
    THEN [block |-> <<store.chain[number + 1]>>, err |-> NoErr]
    ELSE [block |-> <<>>, err |-> [kind |-> "NotFound", ref |-> number, cause |-> "no block"]]

\* core.ApplyTransaction: the engine refuses a transaction the gas pool cannot
\* pay for before running it; otherwise it runs the transaction's ops against
\* the overlay and either rejects it (the mutations made so far stay in the
\* overlay) or takes its gas, hands its dirty keys to the per-transaction sink
\* and returns the receipt.
ApplyTransaction(cfg, gasPool, s, env, sink, tx, used) ==
    IF gasPool < tx.gas
    THEN [err |-> [kind |-> "engine", ref |-> tx.hash, cause |-> "gas limit reached"],
          receipt |-> <<>>, s |-> s, env |-> env, gp |-> gasPool, usedGas |-> used]
    ELSE LET t == ExecOps(s, env.store, tx.ops)
         IN IF ~tx.valid
            THEN [err |-> [kind |-> "engine", ref |-> tx.hash, cause |-> "rejected"],
                  receipt |-> <<>>, s |-> t, env |-> env, gp |-> gasPool, usedGas |-> used]
            ELSE [err |-> NoErr,
                  receipt |-> <<[txHash |-> tx.hash,
                                 cumulativeGasUsed |-> used + tx.gas,
                                 seen |-> SubSeq(t.obs, Len(s.obs) + 1, Len(t.obs))]>>,
                  s |-> t,
                  env |-> WriteAll(sink, WriteAll(sink, env, "acc", Dirty(tx.ops, "acc", <<>>)),
                                   "sto", Dirty(tx.ops, "sto", <<>>)),
                  gp |-> gasPool - tx.gas,
                  usedGas |-> used + tx.gas]

\* misc.ApplyDAOHardFork: moves the balance of the drained account to the
\* refund account.
DAOForkOps == <<Rd("acc", KeyA), Rd("acc", KeyDao), Wr("acc", KeyA, 8), Wr("acc", KeyDao, 0)>>
ApplyDAOHardFork(s, store) == ExecOps(s, store, DAOForkOps)

\* engine.FinalizeAndAssemble: the end-of-block rule credits the block reward
\* to the coinbase, or fails.
FinalizeAndAssemble(cfg, b, s, store, rcpts) ==
    IF b.fate = "finalizeErr"
    THEN [err |-> [kind |-> "consensus", ref |-> b.number, cause |-> "finalize"], s |-> s]
    ELSE [err |-> NoErr,
          s |-> ExecOps(s, store, <<Rd("acc", b.coinbase), Wr("acc", b.coinbase, 5 + Len(rcpts))>>)]

\* ibs.CommitBlock: every pending mutation goes to the given writer, in the
\* overlay's order; a failing commit stops after k account mutations.
CommitBlock(s, env, w, fate, k) ==
    IF fate = "commitErr"
    THEN [err |-> [kind |-> "overlay", ref |-> 0, cause |-> "commit"],
          env |-> WriteAll(w, env, "acc", SubSeq(s.acc, 1, k))]
    ELSE [err |-> NoErr,
          env |-> WriteAll(w, WriteAll(w, env, "acc", s.acc), "sto", s.sto)]

\* ---------------------------------------------------------------- Retrace
HexDigits == <<"0", "1", "2", "3", "4", "5", "6", "7", "8", "9", "a", "b", "c", "d", "e", "f">>

\* common.Bytes2Hex: two lowercase hex digits per byte, no prefix.
RECURSIVE Bytes2Hex(_)
Bytes2Hex(bytes) ==
    IF bytes = <<>> THEN <<>>
    ELSE <<HexDigits[(Head(bytes) \div 16) + 1], HexDigits[(Head(bytes) % 16) + 1]>>
         \o Bytes2Hex(Tail(bytes))

WritesReads == [Reads |-> <<>>, Writes |-> <<>>]
\* RetraceResponse{}
EmptyResponse == [Storage |-> WritesReads, Account |-> WritesReads]

\* ReadChainConfig: the genesis hash of a known chain name (nil otherwise) is
\* looked up in the config bucket and the document decoded; every failure on
\* the way leaves the zero-valued configuration.
\* A resolution that falls back to the mainnet configuration: not what
\* ReadChainConfig does.
ReadChainConfig_DefaultMainnet(store, chain) ==
    LET k == CASE chain = "mainnet" -> MainnetGenesisHash
               [] chain = "testnet" -> RopstenGenesisHash
               [] chain = "rinkeby" -> RinkebyGenesisHash
               [] chain = "goerli" -> GoerliGenesisHash
               [] OTHER -> <<>>
        data == IF k \in DOMAIN store.config /\ ~store.config[k].readErr
                THEN <<store.config[k]>> ELSE <<>>
    IN IF data # <<>> /\ data[1].json THEN data[1].config ELSE MainnetChainConfig

\* ReadChainConfig, lines 134-155.
ReadChainConfig(store, chain) ==
    LET k == CASE chain = "mainnet" -> MainnetGenesisHash
               [] chain = "testnet" -> RopstenGenesisHash
               [] chain = "rinkeby" -> RinkebyGenesisHash
               [] chain = "goerli" -> GoerliGenesisHash
               [] OTHER -> <<>>
        data == IF k \in DOMAIN store.config /\ ~store.config[k].readErr
                THEN <<store.config[k]>> ELSE <<>>
    IN IF data # <<>> /\ data[1].json THEN data[1].config ELSE ZeroConfig

\* A wrapper that drops the locator's error: not what the code does.
GetBlockByNumber_DropErr(store, number) ==
    [block |-> RemoteGetBlockByNumber(store, number).block, err |-> NoErr]

\* GetBlockByNumber: the locator's block, or nil and its error.
GetBlockByNumber(store, number) ==
    LET r == RemoteGetBlockByNumber(store, number)
    IN IF r.err # NoErr THEN [block |-> <<>>, err |-> r.err]
       ELSE [block |-> r.block, err |-> NoErr]


\* A per-transaction sink that is the block's recorder: not what Retrace makes.
NewNoopWriter_ChangeSet == "changeset"

\* A sink that writes into the keyed store: not what Retrace makes.
NewNoopWriter_Db == "db"

\* state.NewNoopWriter()
NewNoopWriter == "noop"

\* The two writers exchanged: not what Retrace passes.
RunBlockWriters_Swapped(noop) == [txnWriter |-> "changeset", blockWriter |-> noop]

\* The two writers of the call runBlock(ibs, noOpWriter, writer, ...).
RunBlockWriters(noop) == [txnWriter |-> noop, blockWriter |-> "changeset"]

HexKeys(keys) == [i \in 1..Len(keys) |-> Bytes2Hex(keys[i])]

\* A response with the reads of the two stores crossed: not what Retrace does.
Output_Crossed(w, r) ==
    [Account |-> [Writes |-> HexKeys(Keys(GetAccountChanges(w).Changes)),
                  Reads |-> HexKeys(r.storageReads)],
     Storage |-> [Writes |-> HexKeys(Keys(GetStorageChanges(w).Changes)),
                  Reads |-> HexKeys(r.accountReads)]]

\* The response assembled from the recorder w and the reader r.
Output(w, r) ==
    [Account |-> [Writes |-> HexKeys(Keys(GetAccountChanges(w).Changes)),
                  Reads |-> HexKeys(r.accountReads)],
     Storage |-> [Writes |-> HexKeys(Keys(GetStorageChanges(w).Changes)),
                  Reads |-> HexKeys(r.storageReads)]]

\* A return that reports the error of the account change-set accessor: not
\* what Retrace does.
RetraceReturn_ChecksAccessor(e, w, r) ==
    IF e # NoErr THEN [resp |-> EmptyResponse, err |-> e]
    ELSE IF GetAccountChanges(w).err # NoErr
    THEN [resp |-> EmptyResponse, err |-> GetAccountChanges(w).err]
    ELSE [resp |-> Output(w, r), err |-> NoErr]

\* A return that keeps what was logged before the failure: not what Retrace does.
RetraceReturn_Partial(e, w, r) == [resp |-> Output(w, r), err |-> e]

\* What Retrace returns once runBlock has returned e: the empty response and
\* e, or the assembled response and nil.
RetraceReturn(e, w, r) ==
    IF e # NoErr THEN [resp |-> EmptyResponse, err |-> e]
    ELSE [resp |-> Output(w, r), err |-> NoErr]

\* ----------------------------------------------------------------- handler
StatusOK == 200
StatusInternalServerError == 500

\* A handler that answers 200 with what Retrace returned, whatever the error:
\* not what the handler does.
GetWritesReads_AlwaysOK(results, e) ==
    [status |-> StatusOK, body |-> <<results>>, errors |-> <<>>]

\* Env.GetWritesReads: c.AbortWithError(500, err) sets the status, attaches the
\* error to the context and writes no body; c.JSON(200, results) writes the
\* response as the body.
GetWritesReads(results, e) ==
    IF e # NoErr
    THEN [status |-> StatusInternalServerError, body |-> <<>>, errors |-> <<e>>]
    ELSE [status |-> StatusOK, body |-> <<results>>, errors |-> <<>>]

\* ---------------------------------------------------------------- runBlock
\* An error naming the block's first transaction: not what runBlock does.
TxFailed_First(txs, i, e) == [kind |-> "TransactionFailed", ref |-> txs[1].hash, cause |-> e.cause]

\* The error of a failed transaction: the hash of the loop's transaction and
\* the engine's cause.
TxFailed(txs, i, e) == [kind |-> "TransactionFailed", ref |-> txs[i].hash, cause |-> e.cause]
FinalizeFailed(b, e) == [kind |-> "FinalizeFailed", ref |-> b.number, cause |-> e.cause]
CommitFailed(b, e) == [kind |-> "CommitFailed", ref |-> b.number, cause |-> e.cause]

\* Receipts kept newest first: not what runBlock does.
AppendReceipt_Front(rcpts, r) == <<r>> \o rcpts

AppendReceipt(rcpts, r) == Append(rcpts, r)

\* A loop exit that skips finalization: not what runBlock does.
AfterTx_SkipFinalize(i, n) == IF i < n THEN "tx" ELSE "commit"

\* A loop exit that returns at once for a block without transactions: not what
\* runBlock does.
AfterTx_EmptyReturns(i, n) == IF n = 0 THEN "respond" ELSE IF i < n THEN "tx" ELSE "finalize"

\* Where runBlock goes after i of n transactions were applied.
AfterTx(i, n) == IF i < n THEN "tx" ELSE "finalize"

\* A condition that ignores DAOForkSupport: not what runBlock tests.
IsDAOForkBlock_AnySupport(cfg, b) ==
    cfg.DAOForkBlock # <<>> /\ cfg.DAOForkBlock[1] = b.number

\* The condition of the one-time DAO transition.
IsDAOForkBlock(cfg, b) ==
    cfg.DAOForkSupport /\ cfg.DAOForkBlock # <<>> /\ cfg.DAOForkBlock[1] = b.number

\* ------------------------------------------------------------------- state
VARIABLES
    db,           \* the keyed store
    pc,           \* where each replay request stands
    req,          \* its arguments: the height string and the chain name
    chainConfig,  \* Retrace's chainConfig
    noOpWriter,   \* Retrace's noOpWriter
    bn,           \* Retrace's bn
    block,        \* Retrace's block (<<>> is nil)
    writer,       \* Retrace's writer, the block-scoped recorder (<<>> before it is made)
    ibs,          \* Retrace's intraBlockState with its reader (<<>> before it is made)
    gp,           \* runBlock's gas pool
    usedGas,      \* runBlock's usedGas
    receipts,     \* runBlock's receipts
    txi,          \* the number of transactions runBlock's loop has applied
    err,          \* the error runBlock returned to Retrace
    ret,          \* what Retrace returned (<<>> while it runs)
    calls,        \* the external operations each replay has invoked, in order
    http          \* what the handler answered (<<>> before it answers)

vars == <<db, pc, req, chainConfig, noOpWriter, bn, block, writer, ibs, gp, usedGas,
          receipts, txi, err, ret, calls, http>>

NoReq == [number |-> <<>>, chain |-> ""]

\* No request has started.
InitLocals ==
    /\ pc = [p \in Procs |-> "idle"]
    /\ req = [p \in Procs |-> NoReq]
    /\ chainConfig = [p \in Procs |-> ZeroConfig]
    /\ noOpWriter = [p \in Procs |-> "nil"]
    /\ bn = [p \in Procs |-> 0]
    /\ block = [p \in Procs |-> <<>>]
    /\ writer = [p \in Procs |-> <<>>]
    /\ ibs = [p \in Procs |-> <<>>]
    /\ gp = [p \in Procs |-> 0]
    /\ usedGas = [p \in Procs |-> 0]
    /\ receipts = [p \in Procs |-> <<>>]
    /\ txi = [p \in Procs |-> 0]
    /\ err = [p \in Procs |-> NoErr]
    /\ ret = [p \in Procs |-> <<>>]
    /\ calls = [p \in Procs |-> <<>>]
    /\ http = [p \in Procs |-> <<>>]

Init ==
    /\ db \in Stores
    /\ InitLocals

\* Env.GetWritesReads, lines 31-35, once Retrace has returned: the handler
\* answers in the step in which Retrace returns.
HandlerAnswers(p) ==
    http' = [http EXCEPT ![p] =
                IF ret'[p] = <<>> THEN <<>>
                ELSE <<GetWritesReads(ret'[p][1].resp, ret'[p][1].err)>>]

Event(ev, i, ok) == [ev |-> ev, i |-> i, ok |-> ok]

\* Retrace, lines 47-53: the configuration, the sink and the height.
RetraceEntry(p, number, chain) ==
    LET a == Atoi(number)
    IN /\ req' = [req EXCEPT ![p] = [number |-> number, chain |-> chain]]
       /\ chainConfig' = [chainConfig EXCEPT ![p] = ReadChainConfig(db, chain)]
       /\ noOpWriter' = [noOpWriter EXCEPT ![p] = NewNoopWriter]
       /\ bn' = [bn EXCEPT ![p] = a.n]
       /\ IF a.err # NoErr
          THEN /\ ret' = [ret EXCEPT ![p] = <<[resp |-> EmptyResponse, err |-> a.err]>>]
               /\ pc' = [pc EXCEPT ![p] = "done"]
          ELSE /\ ret' = ret
               /\ pc' = [pc EXCEPT ![p] = "locate"]
       /\ HandlerAnswers(p)
       /\ UNCHANGED <<db, block, writer, ibs, gp, usedGas, receipts, txi, err, calls>>

\* A request arrives once the requests before it are answered.
RetraceParse(p) ==
    /\ pc[p] = "idle"
    /\ \A q \in Procs : q < p => pc[q] = "done"
    /\ \E number \in HeightStrings, chain \in Chains : RetraceEntry(p, number, chain)

\* A single request, for any chain name.
RetraceParseAnyChain(p) ==
    /\ pc[p] = "idle"
    /\ \A q \in Procs : p <= q
    /\ \E number \in HeightStrings, chain \in AllChains : RetraceEntry(p, number, chain)

\* Retrace, lines 54-58: the block at uint64(bn).
RetraceLocate(p) ==
    /\ pc[p] = "locate"
    /\ LET r == GetBlockByNumber(db, Uint64(bn[p]))
       IN /\ block' = [block EXCEPT ![p] = r.block]
          /\ calls' = [calls EXCEPT ![p] = Append(@, Event("locate", Uint64(bn[p]), r.err = NoErr))]
          /\ IF r.err # NoErr
             THEN /\ ret' = [ret EXCEPT ![p] = <<[resp |-> EmptyResponse, err |-> r.err]>>]
                  /\ pc' = [pc EXCEPT ![p] = "done"]
             ELSE /\ ret' = ret
                  /\ pc' = [pc EXCEPT ![p] = "wire"]
    /\ HandlerAnswers(p)
    /\ UNCHANGED <<db, req, chainConfig, noOpWriter, bn, writer, ibs, gp, usedGas, receipts,
                   txi, err>>

\* A reader kept across requests, with the access logs of the request before:
\* not what Retrace does.
RetraceWire_Shared(p) ==
    /\ pc[p] = "wire"
    /\ writer' = [writer EXCEPT ![p] = <<NewChangeSetWriter>>]
    /\ ibs' = [ibs EXCEPT ![p] =
                  IF \E q \in Procs : q # p /\ ibs[q] # <<>>
                  THEN LET q == CHOOSE q \in Procs : q # p /\ ibs[q] # <<>>
                       IN <<NewIntraBlockState([ibs[q][1].reader EXCEPT !.height = Uint64(bn[p])])>>
                  ELSE <<NewIntraBlockState(NewRemoteReader(Uint64(bn[p])))>>]
    /\ pc' = [pc EXCEPT ![p] = "init"]
    /\ UNCHANGED <<db, req, chainConfig, noOpWriter, bn, block, gp, usedGas, receipts, txi,
                   err, ret, http, calls>>

\* A recorder kept by the package and handed to every request, with what the
\* other request has put in it: not what Retrace does.
RetraceWire_SharedRecorder(p) ==
    /\ pc[p] = "wire"
    /\ writer' = [writer EXCEPT ![p] =
                     IF \E q \in Procs : q # p /\ writer[q] # <<>>
                     THEN writer[CHOOSE q \in Procs : q # p /\ writer[q] # <<>>]
                     ELSE <<NewChangeSetWriter>>]
    /\ ibs' = [ibs EXCEPT ![p] = <<NewIntraBlockState(NewRemoteReader(Uint64(bn[p])))>>]
    /\ pc' = [pc EXCEPT ![p] = "init"]
    /\ UNCHANGED <<db, req, chainConfig, noOpWriter, bn, block, gp, usedGas, receipts, txi,
                   err, ret, http, calls>>

\* A reader bound to the height before the block's: not what Retrace does.
RetraceWire_ParentHeight(p) ==
    /\ pc[p] = "wire"
    /\ writer' = [writer EXCEPT ![p] = <<NewChangeSetWriter>>]
    /\ ibs' = [ibs EXCEPT ![p] = <<NewIntraBlockState(NewRemoteReader(Uint64(bn[p] - 1)))>>]
    /\ pc' = [pc EXCEPT ![p] = "init"]
    /\ UNCHANGED <<db, req, chainConfig, noOpWriter, bn, block, gp, usedGas, receipts, txi,
                   err, ret, http, calls>>

\* Retrace, lines 59-61: a fresh recorder, reader and overlay.
RetraceWire(p) ==
    /\ pc[p] = "wire"
    /\ writer' = [writer EXCEPT ![p] = <<NewChangeSetWriter>>]
    /\ ibs' = [ibs EXCEPT ![p] = <<NewIntraBlockState(NewRemoteReader(Uint64(bn[p])))>>]
    /\ pc' = [pc EXCEPT ![p] = "init"]
    /\ UNCHANGED <<db, req, chainConfig, noOpWriter, bn, block, gp, usedGas, receipts, txi,
                   err, ret, http, calls>>

\* runBlock, lines 92-97: the gas pool, the used-gas counter, the receipts.
\* block.Header() on a nil block panics.
RunBlockInit(p) ==
    /\ pc[p] = "init"
    /\ IF block[p] = <<>>
       THEN /\ pc' = [pc EXCEPT ![p] = "panic"]
            /\ UNCHANGED <<gp, usedGas, receipts, txi>>
       ELSE /\ gp' = [gp EXCEPT ![p] = block[p][1].gasLimit]
            /\ usedGas' = [usedGas EXCEPT ![p] = 0]
            /\ receipts' = [receipts EXCEPT ![p] = <<>>]
            /\ txi' = [txi EXCEPT ![p] = 0]
            /\ pc' = [pc EXCEPT ![p] = "fork"]
    /\ UNCHANGED <<db, req, chainConfig, noOpWriter, bn, block, writer, ibs, err, ret, http, calls>>

\* runBlock, lines 98-100: the one-time DAO transition.
RunBlockFork(p) ==
    /\ pc[p] = "fork"
    /\ IF IsDAOForkBlock(chainConfig[p], block[p][1])
       THEN /\ ibs' = [ibs EXCEPT ![p] = <<ApplyDAOHardFork(ibs[p][1], db)>>]
            /\ calls' = [calls EXCEPT ![p] = Append(@, Event("fork", 0, TRUE))]
       ELSE UNCHANGED <<ibs, calls>>
    /\ pc' = [pc EXCEPT ![p] = AfterTx(0, Len(block[p][1].txs))]
    /\ UNCHANGED <<db, req, chainConfig, noOpWriter, bn, block, writer, gp, usedGas, receipts,
                   txi, err, ret, http>>

\* A loop that gives each transaction an overlay without the pending mutations
\* of the steps before: not what runBlock does.
RunBlockApplyTx_FreshOverlay(p) ==
    /\ pc[p] = "tx"
    /\ LET txs == block[p][1].txs
           w == RunBlockWriters(noOpWriter[p])
           r == ApplyTransaction(chainConfig[p], gp[p],
                                 [ibs[p][1] EXCEPT !.acc = <<>>, !.sto = <<>>],
                                 [rec |-> writer[p][1], store |-> db],
                                 w.txnWriter, txs[txi[p] + 1], usedGas[p])
       IN /\ ibs' = [ibs EXCEPT ![p] = <<r.s>>]
          /\ writer' = [writer EXCEPT ![p] = <<r.env.rec>>]
          /\ db' = r.env.store
          /\ gp' = [gp EXCEPT ![p] = r.gp]
          /\ usedGas' = [usedGas EXCEPT ![p] = r.usedGas]
          /\ calls' = [calls EXCEPT ![p] = Append(@, Event("apply", txi[p], r.err = NoErr))]
          /\ IF r.err # NoErr
             THEN /\ err' = [err EXCEPT ![p] = TxFailed(txs, txi[p] + 1, r.err)]
                  /\ pc' = [pc EXCEPT ![p] = "respond"]
                  /\ UNCHANGED <<receipts, txi>>
             ELSE /\ receipts' = [receipts EXCEPT ![p] = AppendReceipt(@, r.receipt[1])]
                  /\ txi' = [txi EXCEPT ![p] = @ + 1]
                  /\ pc' = [pc EXCEPT ![p] = AfterTx(txi[p] + 1, Len(txs))]
                  /\ err' = err
    /\ UNCHANGED <<req, chainConfig, noOpWriter, bn, block, ret, http>>

\* A loop that hands a failed transaction to the engine a second time: not
\* what runBlock does.
RunBlockApplyTx_Retry(p) ==
    /\ pc[p] = "tx"
    /\ LET txs == block[p][1].txs
           w == RunBlockWriters(noOpWriter[p])
           r == ApplyTransaction(chainConfig[p], gp[p], ibs[p][1],
                                 [rec |-> writer[p][1], store |-> db],
                                 w.txnWriter, txs[txi[p] + 1], usedGas[p])
           again == \A k \in 1..Len(calls[p]) : calls[p][k].ok
       IN /\ ibs' = [ibs EXCEPT ![p] = <<r.s>>]
          /\ writer' = [writer EXCEPT ![p] = <<r.env.rec>>]
          /\ db' = r.env.store
          /\ gp' = [gp EXCEPT ![p] = r.gp]
          /\ usedGas' = [usedGas EXCEPT ![p] = r.usedGas]
          /\ calls' = [calls EXCEPT ![p] = Append(@, Event("apply", txi[p], r.err = NoErr))]
          /\ IF r.err # NoErr
             THEN /\ err' = [err EXCEPT ![p] = TxFailed(txs, txi[p] + 1, r.err)]
                  /\ pc' = [pc EXCEPT ![p] = IF again THEN "tx" ELSE "respond"]
                  /\ UNCHANGED <<receipts, txi>>
             ELSE /\ receipts' = [receipts EXCEPT ![p] = AppendReceipt(@, r.receipt[1])]
                  /\ txi' = [txi EXCEPT ![p] = @ + 1]
                  /\ pc' = [pc EXCEPT ![p] = AfterTx(txi[p] + 1, Len(txs))]
                  /\ err' = err
    /\ UNCHANGED <<req, chainConfig, noOpWriter, bn, block, ret, http>>

\* A loop that gives every transaction a pool refilled to the block's gas
\* limit: not what runBlock does.
RunBlockApplyTx_FreshPool(p) ==
    /\ pc[p] = "tx"
    /\ LET txs == block[p][1].txs
           w == RunBlockWriters(noOpWriter[p])
           r == ApplyTransaction(chainConfig[p], block[p][1].gasLimit, ibs[p][1],
                                 [rec |-> writer[p][1], store |-> db],
                                 w.txnWriter, txs[txi[p] + 1], usedGas[p])
       IN /\ ibs' = [ibs EXCEPT ![p] = <<r.s>>]
          /\ writer' = [writer EXCEPT ![p] = <<r.env.rec>>]
          /\ db' = r.env.store
          /\ gp' = [gp EXCEPT ![p] = r.gp]
          /\ usedGas' = [usedGas EXCEPT ![p] = r.usedGas]
          /\ calls' = [calls EXCEPT ![p] = Append(@, Event("apply", txi[p], r.err = NoErr))]
          /\ IF r.err # NoErr
             THEN /\ err' = [err EXCEPT ![p] = TxFailed(txs, txi[p] + 1, r.err)]
                  /\ pc' = [pc EXCEPT ![p] = "respond"]
                  /\ UNCHANGED <<receipts, txi>>
             ELSE /\ receipts' = [receipts EXCEPT ![p] = AppendReceipt(@, r.receipt[1])]
                  /\ txi' = [txi EXCEPT ![p] = @ + 1]
                  /\ pc' = [pc EXCEPT ![p] = AfterTx(txi[p] + 1, Len(txs))]
                  /\ err' = err
    /\ UNCHANGED <<req, chainConfig, noOpWriter, bn, block, ret, http>>

\* runBlock, lines 101-107: one turn of the loop over the transactions.
RunBlockApplyTx(p) ==
    /\ pc[p] = "tx"
    /\ LET txs == block[p][1].txs
           w == RunBlockWriters(noOpWriter[p])
           r == ApplyTransaction(chainConfig[p], gp[p], ibs[p][1],
                                 [rec |-> writer[p][1], store |-> db],
                                 w.txnWriter, txs[txi[p] + 1], usedGas[p])
       IN /\ ibs' = [ibs EXCEPT ![p] = <<r.s>>]
          /\ writer' = [writer EXCEPT ![p] = <<r.env.rec>>]
          /\ db' = r.env.store
          /\ gp' = [gp EXCEPT ![p] = r.gp]
          /\ usedGas' = [usedGas EXCEPT ![p] = r.usedGas]
          /\ calls' = [calls EXCEPT ![p] = Append(@, Event("apply", txi[p], r.err = NoErr))]
          /\ IF r.err # NoErr
             THEN /\ err' = [err EXCEPT ![p] = TxFailed(txs, txi[p] + 1, r.err)]
                  /\ pc' = [pc EXCEPT ![p] = "respond"]
                  /\ UNCHANGED <<receipts, txi>>
             ELSE /\ receipts' = [receipts EXCEPT ![p] = AppendReceipt(@, r.receipt[1])]
                  /\ txi' = [txi EXCEPT ![p] = @ + 1]
                  /\ pc' = [pc EXCEPT ![p] = AfterTx(txi[p] + 1, Len(txs))]
                  /\ err' = err
    /\ UNCHANGED <<req, chainConfig, noOpWriter, bn, block, ret, http>>

\* A finalization whose failure does not stop runBlock: not what runBlock does.
RunBlockFinalize_CommitAnyway(p) ==
    /\ pc[p] = "finalize"
    /\ LET r == FinalizeAndAssemble(chainConfig[p], block[p][1], ibs[p][1], db, receipts[p])
       IN /\ ibs' = [ibs EXCEPT ![p] = <<r.s>>]
          /\ calls' = [calls EXCEPT ![p] = Append(@, Event("finalize", 0, r.err = NoErr))]
          /\ err' = [err EXCEPT ![p] =
                        IF r.err # NoErr THEN FinalizeFailed(block[p][1], r.err) ELSE @]
          /\ pc' = [pc EXCEPT ![p] = "commit"]
    /\ UNCHANGED <<db, req, chainConfig, noOpWriter, bn, block, writer, gp, usedGas, receipts,
                   txi, ret, http>>

\* runBlock, lines 108-111: finalization.
RunBlockFinalize(p) ==
    /\ pc[p] = "finalize"
    /\ LET r == FinalizeAndAssemble(chainConfig[p], block[p][1], ibs[p][1], db, receipts[p])
       IN /\ ibs' = [ibs EXCEPT ![p] = <<r.s>>]
          /\ calls' = [calls EXCEPT ![p] = Append(@, Event("finalize", 0, r.err = NoErr))]
          /\ IF r.err # NoErr
             THEN /\ err' = [err EXCEPT ![p] = FinalizeFailed(block[p][1], r.err)]
                  /\ pc' = [pc EXCEPT ![p] = "respond"]
             ELSE /\ err' = err
                  /\ pc' = [pc EXCEPT ![p] = "commit"]
    /\ UNCHANGED <<db, req, chainConfig, noOpWriter, bn, block, writer, gp, usedGas, receipts,
                   txi, ret, http>>

\* A commit through the per-transaction writer: not what runBlock does.
RunBlockCommit_TxnWriter(p) ==
    /\ pc[p] = "commit"
    /\ \E k \in 0..Len(ibs[p][1].acc) :
          LET w == RunBlockWriters(noOpWriter[p])
              r == CommitBlock(ibs[p][1], [rec |-> writer[p][1], store |-> db],
                               w.txnWriter, block[p][1].fate, k)
          IN /\ writer' = [writer EXCEPT ![p] = <<r.env.rec>>]
             /\ db' = r.env.store
             /\ calls' = [calls EXCEPT ![p] = Append(@, Event("commit", 0, r.err = NoErr))]
             /\ err' = [err EXCEPT ![p] =
                           IF r.err # NoErr THEN CommitFailed(block[p][1], r.err) ELSE NoErr]
    /\ pc' = [pc EXCEPT ![p] = "respond"]
    /\ UNCHANGED <<req, chainConfig, noOpWriter, bn, block, ibs, gp, usedGas, receipts, txi, ret, http>>

\* A commit whose error is dropped: not what runBlock does.
RunBlockCommit_IgnoreErr(p) ==
    /\ pc[p] = "commit"
    /\ \E k \in 0..Len(ibs[p][1].acc) :
          LET w == RunBlockWriters(noOpWriter[p])
              r == CommitBlock(ibs[p][1], [rec |-> writer[p][1], store |-> db],
                               w.blockWriter, block[p][1].fate, k)
          IN /\ writer' = [writer EXCEPT ![p] = <<r.env.rec>>]
             /\ db' = r.env.store
             /\ calls' = [calls EXCEPT ![p] = Append(@, Event("commit", 0, r.err = NoErr))]
             /\ err' = [err EXCEPT ![p] = NoErr]
    /\ pc' = [pc EXCEPT ![p] = "respond"]
    /\ UNCHANGED <<req, chainConfig, noOpWriter, bn, block, ibs, gp, usedGas, receipts, txi, ret, http>>

\* runBlock, lines 113-117: the commit through the block writer.
RunBlockCommit(p) ==
    /\ pc[p] = "commit"
    /\ \E k \in 0..Len(ibs[p][1].acc) :
          LET w == RunBlockWriters(noOpWriter[p])
              r == CommitBlock(ibs[p][1], [rec |-> writer[p][1], store |-> db],
                               w.blockWriter, block[p][1].fate, k)
          IN /\ writer' = [writer EXCEPT ![p] = <<r.env.rec>>]
             /\ db' = r.env.store
             /\ calls' = [calls EXCEPT ![p] = Append(@, Event("commit", 0, r.err = NoErr))]
             /\ err' = [err EXCEPT ![p] =
                           IF r.err # NoErr THEN CommitFailed(block[p][1], r.err) ELSE NoErr]
    /\ pc' = [pc EXCEPT ![p] = "respond"]
    /\ UNCHANGED <<req, chainConfig, noOpWriter, bn, block, ibs, gp, usedGas, receipts, txi, ret, http>>

\* Retrace, lines 63-86: runBlock has returned; the response.
RetraceRespond(p) ==
    /\ pc[p] = "respond"
    /\ ret' = [ret EXCEPT ![p] = <<RetraceReturn(err[p], writer[p][1], ibs[p][1].reader)>>]
    /\ HandlerAnswers(p)
    /\ pc' = [pc EXCEPT ![p] = "done"]
    /\ UNCHANGED <<db, req, chainConfig, noOpWriter, bn, block, writer, ibs, gp, usedGas,
                   receipts, txi, err, calls>>

Next ==
    \E p \in Procs :
        \/ RetraceParse(p)
        \/ RetraceLocate(p)
        \/ RetraceWire(p)
        \/ RunBlockInit(p)
        \/ RunBlockFork(p)
        \/ RunBlockApplyTx(p)
        \/ RunBlockFinalize(p)
        \/ RunBlockCommit(p)
        \/ RetraceRespond(p)

Spec == Init /\ [][Next]_vars

\* Two requests in flight at once: each handler runs on its own goroutine and
\* the steps of the two replays interleave freely.
ConcHeights == {<<"0">>, <<"1">>, <<"2">>}

RetraceParseConc(p) ==
    /\ pc[p] = "idle"
    /\ \E number \in ConcHeights, chain \in Chains : RetraceEntry(p, number, chain)

NextConc ==
    \E p \in Procs :
        \/ RetraceParseConc(p)
        \/ RetraceLocate(p)
        \/ RetraceWire(p)
        \/ RunBlockInit(p)
        \/ RunBlockFork(p)
        \/ RunBlockApplyTx(p)
        \/ RunBlockFinalize(p)
        \/ RunBlockCommit(p)
        \/ RetraceRespond(p)

SpecConc == Init /\ [][NextConc]_vars

\* One request, over every chain name and every stored configuration.
InitAnyConfig ==
    /\ db \in StoresAnyConfig
    /\ InitLocals

NextAnyChain ==
    \E p \in Procs :
        \/ RetraceParseAnyChain(p)
        \/ RetraceLocate(p)
        \/ RetraceWire(p)
        \/ RunBlockInit(p)
        \/ RunBlockFork(p)
        \/ RunBlockApplyTx(p)
        \/ RunBlockFinalize(p)
        \/ RunBlockCommit(p)
        \/ RetraceRespond(p)

SpecAnyChain == InitAnyConfig /\ [][NextAnyChain]_vars


\* ------------------------------------------------------------- properties
\* The external operations of the Orchestrator a replay has invoked.
Steps(p) == SelectSeq(calls[p], LAMBDA e : e.ev # "locate")
Applies(p) == SelectSeq(calls[p], LAMBDA e : e.ev = "apply")
Has(p, ev, ok) == \E k \in 1..Len(calls[p]) : calls[p][k].ev = ev /\ calls[p][k].ok = ok
Invoked(p, ev) == \E k \in 1..Len(calls[p]) : calls[p][k].ev = ev

RECURSIVE SumGas(_, _)
SumGas(txs, i) == IF i = 0 THEN 0 ELSE SumGas(txs, i - 1) + txs[i].gas

\* C1: runBlock applies the transactions of a block strictly in block order.
\* The engine is handed transactions 0, 1, 2, ... in this order; the receipts
\* are those of the successfully applied transactions, receipt i being the one
\* of transaction i; when all n succeeded there are n receipts; when
\* transaction j was rejected there are exactly j receipts, of 0..j-1.
ReceiptsFollowBlockOrder ==
    \A p \in Procs :
        block[p] # <<>> =>
            LET txs == block[p][1].txs
                n == Len(txs)
                rs == receipts[p]
                a == Applies(p)
            IN /\ \A k \in 1..Len(a) : a[k].i = k - 1
               /\ Len(a) <= n
               /\ \A k \in 1..Len(a) : ~a[k].ok => k = Len(a)
               /\ Len(rs) = Cardinality({k \in 1..Len(a) : a[k].ok})
               /\ \A i \in 1..Len(rs) :
                     /\ rs[i].txHash = txs[i].hash
                     /\ rs[i].cumulativeGasUsed = SumGas(txs, i)
               /\ (Len(a) = n /\ ~Has(p, "apply", FALSE)) => Len(rs) = n
               /\ \A j \in 0..(n - 1) :
                     (\E k \in 1..Len(a) : a[k].i = j /\ ~a[k].ok) => Len(rs) = j
               /\ pc[p] \in {"finalize", "commit"} => Len(rs) = n

\* A block of two or more transactions was applied in full.
ReceiptsFollowBlockOrderWitness ==
    \E p \in Procs :
        /\ pc[p] = "finalize"
        /\ Len(block[p][1].txs) >= 2
        /\ Len(receipts[p]) = Len(block[p][1].txs)
        /\ block[p][1].txs[1] # block[p][1].txs[2]

\* C2: when the engine fails on transaction j, runBlock returns a
\* TransactionFailed error with the hash of transaction j and the engine's
\* cause; the failed application is the last external operation of the replay:
\* no later transaction is applied, finalization and commit are never invoked
\* and the block-scoped recorder stays empty.
TxFailureAbortsReplay ==
    \A p \in Procs :
        /\ Has(p, "apply", FALSE) => err[p].kind = "TransactionFailed"
        /\ err[p].kind = "TransactionFailed" =>
              LET txs == block[p][1].txs
                  a == Applies(p)
                  j == txi[p]
              IN /\ a # <<>>
                 /\ a[Len(a)] = Event("apply", j, FALSE)
                 /\ calls[p][Len(calls[p])] = Event("apply", j, FALSE)
                 /\ \A k \in 1..Len(a) : a[k].i <= j
                 /\ err[p].ref = txs[j + 1].hash
                 /\ err[p].cause =
                       IF gp[p] < txs[j + 1].gas THEN "gas limit reached" ELSE "rejected"
                 /\ ~Invoked(p, "finalize")
                 /\ ~Invoked(p, "commit")
                 /\ writer[p] = <<NewChangeSetWriter>>
                 /\ pc[p] \in {"respond", "done"}
                 /\ pc[p] = "done" => ret[p][1].err = err[p]

\* The second transaction of a block was rejected after the first was applied.
TxFailureAbortsReplayWitness ==
    \E p \in Procs :
        /\ pc[p] = "done"
        /\ err[p].kind = "TransactionFailed"
        /\ txi[p] = 1
        /\ block[p][1].txs[1].hash # block[p][1].txs[2].hash
        /\ err[p].cause = "rejected"
        /\ Len(ibs[p][1].wrote) > Len(SelectSeq(block[p][1].txs[1].ops, LAMBDA o : o.op = "w"))

\* C3: the outcome of Retrace is binary. A returned error comes with the
\* empty response, whatever was read or recorded before the failure; a response
\* with a non-empty list comes with a nil error and after a successful commit;
\* and every failure of runBlock is returned as the error of Retrace.
BinaryOutcome ==
    \A p \in Procs :
        /\ pc[p] = "done" <=> ret[p] # <<>>
        /\ ret[p] # <<>> =>
              LET r == ret[p][1]
              IN /\ r.err # NoErr => r.resp = EmptyResponse
                 /\ r.err.kind \in {"nil", "InvalidInput", "NotFound", "TransactionFailed",
                                    "FinalizeFailed", "CommitFailed"}
                 /\ r.resp # EmptyResponse => r.err = NoErr /\ Has(p, "commit", TRUE)
                 /\ err[p] # NoErr => r.err = err[p]
                 /\ (Has(p, "apply", FALSE) \/ Has(p, "finalize", FALSE)
                        \/ Has(p, "commit", FALSE) \/ Has(p, "locate", FALSE)) => r.err # NoErr

\* An error was returned after a transaction had succeeded and reads were logged.
BinaryOutcomeWitness ==
    \E p \in Procs :
        /\ pc[p] = "done"
        /\ ret[p][1].err.kind = "TransactionFailed"
        /\ Len(receipts[p]) >= 1
        /\ ibs[p][1].reader.accountReads # <<>>
        /\ ret[p][1].resp = EmptyResponse

\* The full run of the Orchestrator on a block with n transactions, the
\* one-time transition left aside.
RECURSIVE ApplyOrder(_)
ApplyOrder(n) == IF n = 0 THEN <<>> ELSE Append(ApplyOrder(n - 1), <<"apply", n - 1>>)
FullOrder(n) == ApplyOrder(n) \o <<<<"finalize", 0>>, <<"commit", 0>>>>

\* C4: every run of the Orchestrator follows Init, the optional one-time
\* transition, ApplyTx(0) .. ApplyTx(n-1), Finalize, Commit, Done. What a
\* replay has invoked is always a prefix of this order; finalization is
\* invoked only after n successful applications, commit only after a
\* successful finalization, success is returned only after a successful
\* commit, and a failed step is the last step.
OrchestratorOrder ==
    \A p \in Procs :
        LET st == Steps(p)
            forked == st # <<>> /\ st[1].ev = "fork"
            rest == IF forked THEN Tail(st) ELSE st
            n == IF block[p] = <<>> THEN 0 ELSE Len(block[p][1].txs)
            full == FullOrder(n)
        IN /\ st # <<>> => pc[p] \notin {"idle", "locate", "wire", "init", "fork"}
           /\ Len(rest) <= Len(full)
           /\ \A k \in 1..Len(rest) : <<rest[k].ev, rest[k].i>> = full[k]
           /\ \A k \in 1..Len(st) : ~st[k].ok => k = Len(st) /\ pc[p] \in {"respond", "done"}
           /\ pc[p] = "tx" => Len(rest) = txi[p] /\ txi[p] < n
           /\ pc[p] = "finalize" => Len(rest) = n
           /\ pc[p] = "commit" => Len(rest) = n + 1
           /\ (pc[p] \in {"respond", "done"} /\ err[p] = NoErr /\ writer[p] # <<>>)
                 => Len(rest) = n + 2 /\ rest[n + 2].ok
           /\ (pc[p] \in {"respond", "done"} /\ err[p] # NoErr)
                 => st # <<>> /\ ~st[Len(st)].ok

\* A replay with the one-time transition and two transactions reached Done.
OrchestratorOrderWitness ==
    \E p \in Procs :
        /\ pc[p] = "done"
        /\ ret[p][1].err = NoErr
        /\ Invoked(p, "fork")
        /\ Len(Applies(p)) = 2
        /\ Has(p, "commit", TRUE)


\* The writes of one store among a sequence of overlay writes.
WritesOf(wrote, kind) == SelectSeq(wrote, LAMBDA e : e.kind = kind)
FirstWrite(ws, key) ==
    CHOOSE i \in 1..Len(ws) : ws[i].key = key /\ \A j \in 1..(i - 1) : ws[j].key # key
LastWrite(ws, key) ==
    CHOOSE i \in 1..Len(ws) : ws[i].key = key /\ \A j \in (i + 1)..Len(ws) : ws[j].key # key
Written(ws, key) == \E i \in 1..Len(ws) : ws[i].key = key

LogFollowsWrites(log, ws, complete) ==
    /\ \A i, j \in 1..Len(log) : log[i].key = log[j].key => i = j
    /\ \A i \in 1..Len(log) :
          /\ Written(ws, log[i].key)
          /\ log[i].val = ws[LastWrite(ws, log[i].key)].val
    /\ \A i, j \in 1..Len(log) :
          i < j => FirstWrite(ws, log[i].key) < FirstWrite(ws, log[j].key)
    /\ complete => \A k \in 1..Len(ws) : \E i \in 1..Len(log) : log[i].key = ws[k].key

\* C5: within one replay every key of the block-scoped write log (account
\* log and storage log separately) appears once, the keys stand in the order
\* of their first writes and each holds the value of its last write; after a
\* successful commit the log holds every key written during the replay.
WriteLogFirstWriteLastValue ==
    \A p \in Procs :
        writer[p] # <<>> =>
            /\ LogFollowsWrites(writer[p][1].acc, WritesOf(ibs[p][1].wrote, "acc"),
                                Has(p, "commit", TRUE))
            /\ LogFollowsWrites(writer[p][1].sto, WritesOf(ibs[p][1].wrote, "sto"),
                                Has(p, "commit", TRUE))

\* A committed replay in which a key was written twice, with two values,
\* after another key had been written in between.
WriteLogFirstWriteLastValueWitness ==
    \E p \in Procs :
        /\ Has(p, "commit", TRUE)
        /\ LET ws == WritesOf(ibs[p][1].wrote, "acc")
           IN \E i, j, k \in 1..Len(ws) :
                 /\ i < j /\ j < k
                 /\ ws[i].key = ws[k].key /\ ws[i].val # ws[k].val
                 /\ ws[j].key # ws[i].key
                 /\ ~Written(SubSeq(ws, 1, i - 1), ws[j].key)
        /\ Len(writer[p][1].acc) >= 2

\* C6: the read logs of the Historical State Reader are the lookups the
\* overlay passed to it, one entry per lookup, in the order of the lookups,
\* repeated keys repeated, and nothing else.
ReadLogIsLookups ==
    \A p \in Procs :
        ibs[p] # <<>> =>
            LET s == ibs[p][1]
                lookups(kind) == SelectSeq(s.asked, LAMBDA e : e.kind = kind)
            IN /\ s.reader.accountReads = Keys(lookups("acc"))
               /\ s.reader.storageReads = Keys(lookups("sto"))

\* A key absent from the store was looked up twice and is logged twice.
ReadLogIsLookupsWitness ==
    \E p \in Procs :
        /\ ibs[p] # <<>>
        /\ LET log == ibs[p][1].reader.accountReads
           IN \E i, j \in 1..Len(log) :
                 i < j /\ log[i] = log[j] /\ log[i] \notin DOMAIN db.accounts

\* C7: no replay changes the keyed store, whether it succeeds or fails.
StoreNeverChanges == [][db' = db]_vars

\* A replay has applied transactions, committed and returned its writes.
StoreNeverChangesWitness ==
    \E p \in Procs :
        /\ pc[p] = "done"
        /\ ret[p][1].err = NoErr
        /\ txi[p] >= 1
        /\ ret[p][1].resp.Account.Writes # <<>>
        /\ ret[p][1].resp.Storage.Writes # <<>>

\* C8: two replays of the same (chain, height) return the same outcome: the
\* same error, or the same four lists entry for entry.
ReplayIdempotent ==
    \A p, q \in Procs :
        (pc[p] = "done" /\ pc[q] = "done" /\ req[p] = req[q]) => ret[p] = ret[q]

\* The same block was replayed twice with success and a non-empty trace.
ReplayIdempotentWitness ==
    \E p, q \in Procs :
        /\ p # q
        /\ pc[p] = "done" /\ pc[q] = "done"
        /\ req[p] = req[q]
        /\ ret[p][1].err = NoErr
        /\ ret[q][1].resp.Account.Reads # <<>>
        /\ ret[q][1].resp.Storage.Reads # <<>>

\* A height string that denotes a non-negative integer: decimal digits, with
\* an optional plus sign.
IsNonNegativeInteger(s) ==
    /\ s # <<>>
    /\ LET body == IF Head(s) = "+" THEN Tail(s) ELSE s
       IN /\ body # <<>>
          /\ \A i \in 1..Len(body) : body[i] \in Digits
          /\ ParseDigits(body, 0) < Word

\* C9: for every height string that is not a valid non-negative integer,
\* Retrace fails with InvalidInput without locating a block.
InvalidHeightRejected ==
    \A p \in Procs :
        (pc[p] # "idle" /\ ~IsNonNegativeInteger(req[p].number)) =>
            /\ pc[p] = "done"
            /\ ret[p][1].err.kind = "InvalidInput"
            /\ calls[p] = <<>>

\* C10: when the locator finds no block at the height, Retrace returns
\* NotFound, having made no recorder, reader or overlay and no step of the
\* Orchestrator; when it finds one (the genesis block included) Retrace holds
\* that block, never returns NotFound and returns only after the Orchestrator ran.
MissingBlockIsNotFound ==
    \A p \in Procs :
        Invoked(p, "locate") =>
            LET h == Uint64(bn[p])
            IN IF h + 1 \notin DOMAIN db.chain
               THEN /\ pc[p] = "done"
                    /\ ret[p][1] = [resp |-> EmptyResponse,
                                    err |-> [kind |-> "NotFound", ref |-> h, cause |-> "no block"]]
                    /\ writer[p] = <<>> /\ ibs[p] = <<>>
                    /\ Steps(p) = <<>>
               ELSE /\ block[p] = <<db.chain[h + 1]>>
                    /\ pc[p] = "done" =>
                          ret[p][1].err.kind # "NotFound" /\ Steps(p) # <<>>

\* One past the head was answered NotFound and the genesis block was replayed.
MissingBlockIsNotFoundWitness ==
    \E p, q \in Procs :
        /\ pc[p] = "done" /\ pc[q] = "done"
        /\ Uint64(bn[p]) = Len(db.chain) /\ ret[p][1].err.kind = "NotFound"
        /\ req[q].number = <<"0">> /\ ret[q][1].err = NoErr
        /\ Has(q, "commit", TRUE)


\* The ops issued against the overlay before transaction k + 1 starts: those
\* of the one-time transition when it was applied, then those of the first k
\* transactions.
RECURSIVE TxOps(_, _)
TxOps(txs, k) == IF k = 0 THEN <<>> ELSE TxOps(txs, k - 1) \o txs[k].ops
OpsBefore(p, k) ==
    (IF Invoked(p, "fork") THEN DAOForkOps ELSE <<>>) \o TxOps(block[p][1].txs, k)

\* The value of a key after a sequence of ops: that of the last write to it,
\* the store's when there is none.
Visible(ops, store, kind, key) ==
    LET ws == {i \in 1..Len(ops) : ops[i].op = "w" /\ ops[i].kind = kind /\ ops[i].key = key}
    IN IF ws = {}
       THEN ValueAt(IF kind = "acc" THEN store.accounts ELSE store.storage, key)
       ELSE ops[CHOOSE i \in ws : \A j \in ws : j <= i].val

\* What the reads among ops must return when ops run after the ops before.
RECURSIVE ExpectedReads(_, _, _)
ExpectedReads(before, ops, store) ==
    IF ops = <<>> THEN <<>>
    ELSE LET o == Head(ops)
         IN (IF o.op = "r" THEN <<Visible(before, store, o.kind, o.key)>> ELSE <<>>)
            \o ExpectedReads(Append(before, o), Tail(ops), store)

\* C11: transaction effects are cumulative. The reads of transaction k + 1
\* return the values left by the one-time transition (when applied) and by
\* transactions 0..k; finalization reads the coinbase as all n transactions
\* left it; and the overlay's pending set always holds every key written so far
\* in the replay with its last value.
EffectsAreCumulative ==
    \A p \in Procs :
        ibs[p] # <<>> =>
            LET txs == block[p][1].txs
                s == ibs[p][1]
            IN /\ \A i \in 1..Len(receipts[p]) :
                     receipts[p][i].seen = ExpectedReads(OpsBefore(p, i - 1), txs[i].ops, db)
               /\ Has(p, "finalize", TRUE) =>
                     s.obs[Len(s.obs)] =
                        Visible(OpsBefore(p, Len(txs)), db, "acc", block[p][1].coinbase)
               /\ LogFollowsWrites(s.acc, WritesOf(s.wrote, "acc"), TRUE)
               /\ LogFollowsWrites(s.sto, WritesOf(s.wrote, "sto"), TRUE)

\* The second transaction read a value the first had written, and finalization
\* read the coinbase a transaction had written.
EffectsAreCumulativeWitness ==
    \E p \in Procs :
        /\ Has(p, "finalize", TRUE)
        /\ Len(receipts[p]) >= 2
        /\ \E r \in 1..Len(receipts[p][2].seen), o \in 1..Len(block[p][1].txs[1].ops) :
              /\ block[p][1].txs[1].ops[o].op = "w"
              /\ receipts[p][2].seen[r] = block[p][1].txs[1].ops[o].val
        /\ ibs[p][1].obs[Len(ibs[p][1].obs)] # ValueAt(db.accounts, block[p][1].coinbase)


Count(p, ev) == Cardinality({k \in 1..Len(calls[p]) : calls[p][k].ev = ev})

\* A replay of a block without transactions whose runBlock has returned.
ZeroTxReturned(p) ==
    /\ block[p] # <<>>
    /\ block[p][1].txs = <<>>
    /\ pc[p] \in {"respond", "done"}

\* What finalization of a block without transactions writes and reads.
RewardEntry(b) == [key |-> b.coinbase, val |-> 5]

PastFork(p) == ibs[p] # <<>> /\ pc[p] \notin {"init", "fork"}
DAOWrites == <<Wr("acc", KeyA, 8), Wr("acc", KeyDao, 0)>>

\* C13 as claimed: the transition is applied whenever the block's height is
\* the configured DAO height.
TransitionAtConfiguredHeight ==
    \A p \in Procs :
        (PastFork(p) /\ chainConfig[p].DAOForkBlock = <<block[p][1].number>>)
            => Invoked(p, "fork")

\* C13 (amended): the one-time transition is applied if the configuration
\* supports the DAO fork and the block's height is the configured DAO height,
\* and then once and before the first transaction; in every other case it is
\* skipped and the overlay is untouched when the first transaction starts.
TransitionOnceBeforeTxs ==
    \A p \in Procs :
        /\ ~(ibs[p] # <<>> /\ PastFork(p)) => ~Invoked(p, "fork")
        /\ PastFork(p) =>
              LET s == ibs[p][1]
                  due == /\ chainConfig[p].DAOForkSupport
                         /\ chainConfig[p].DAOForkBlock = <<block[p][1].number>>
              IN IF due
                 THEN /\ Count(p, "fork") = 1
                      /\ Steps(p)[1].ev = "fork"
                      /\ Len(s.wrote) >= 2
                      /\ [o \in 1..2 |-> Wr(s.wrote[o].kind, s.wrote[o].key, s.wrote[o].val)]
                            = DAOWrites
                 ELSE /\ Count(p, "fork") = 0
                      /\ (pc[p] = "tx" /\ txi[p] = 0) =>
                            s = NewIntraBlockState(NewRemoteReader(Uint64(bn[p])))

\* The transition was applied and the first transaction is about to start.
TransitionOnceBeforeTxsWitness ==
    \E p \in Procs :
        /\ pc[p] = "tx" /\ txi[p] = 0
        /\ Invoked(p, "fork")
        /\ ibs[p][1].acc # <<>>


\* The requests that were answered, and those answered without an error.
Answered(p) == pc[p] = "done" /\ ret[p] # <<>>
Succeeded(p) == Answered(p) /\ ret[p][1].err = NoErr

\* C14: the overlay is committed at most once per replay and exactly once in
\* every replay that succeeds; the commit comes after a finalization that
\* succeeded; it goes to the block-scoped recorder, which then holds every
\* pending mutation of the overlay, and the recorder holds nothing that did
\* not come from the commit.
CommitOnceAfterFinalize ==
    \A p \in Procs :
        /\ Count(p, "commit") <= 1
        /\ Succeeded(p) => Count(p, "commit") = 1 /\ Has(p, "commit", TRUE)
        /\ \A k \in 1..Len(calls[p]) :
              calls[p][k].ev = "commit" =>
                 /\ k > 1
                 /\ calls[p][k - 1] = Event("finalize", 0, TRUE)
        /\ Has(p, "commit", TRUE) =>
              /\ GetAccountChanges(writer[p][1]).Changes = ibs[p][1].acc
              /\ GetStorageChanges(writer[p][1]).Changes = ibs[p][1].sto
        /\ (writer[p] # <<>> /\ ~Invoked(p, "commit")) => writer[p][1] = NewChangeSetWriter

\* A replay succeeded after transactions that changed accounts and storage.
CommitOnceAfterFinalizeWitness ==
    \E p \in Procs :
        /\ Succeeded(p)
        /\ Len(Applies(p)) >= 1
        /\ Len(GetAccountChanges(writer[p][1]).Changes) >= 2
        /\ GetStorageChanges(writer[p][1]).Changes # <<>>

\* C15: when finalization fails the replay ends with FinalizeFailed carrying
\* the block's height and the cause, the commit is never invoked, the recorder
\* stays empty and the caller gets the error with an empty response.
FinalizeFailureEndsReplay ==
    \A p \in Procs :
        Has(p, "finalize", FALSE) =>
            LET e == [kind |-> "FinalizeFailed", ref |-> block[p][1].number, cause |-> "finalize"]
            IN /\ err[p] = e
               /\ ~Invoked(p, "commit")
               /\ pc[p] \in {"respond", "done"}
               /\ writer[p][1] = NewChangeSetWriter
               /\ Answered(p) => ret[p][1] = [resp |-> EmptyResponse, err |-> e]

\* Finalization failed after a transaction had changed the overlay.
FinalizeFailureEndsReplayWitness ==
    \E p \in Procs :
        /\ Answered(p)
        /\ Has(p, "finalize", FALSE)
        /\ Has(p, "apply", TRUE)
        /\ ibs[p][1].acc # <<>>

\* C16: when the commit fails the replay ends with CommitFailed carrying the
\* block's height and the cause, and the caller gets the error with an empty
\* response, whatever part of the mutations the recorder already received.
CommitFailureEndsReplay ==
    \A p \in Procs :
        Has(p, "commit", FALSE) =>
            LET e == [kind |-> "CommitFailed", ref |-> block[p][1].number, cause |-> "commit"]
            IN /\ err[p] = e
               /\ pc[p] \in {"respond", "done"}
               /\ Answered(p) => ret[p][1] = [resp |-> EmptyResponse, err |-> e]

\* The commit failed after the recorder had received a mutation.
CommitFailureEndsReplayWitness ==
    \E p \in Procs :
        /\ Answered(p)
        /\ Has(p, "commit", FALSE)
        /\ GetAccountChanges(writer[p][1]).Changes # <<>>

\* The cause the collaborator of a failed operation gave.
CauseOf(p, e) ==
    CASE e.ev = "locate" -> {"no block"}
      [] e.ev = "apply" -> IF block[p][1].txs[e.i + 1].valid
                           THEN {"gas limit reached"}
                           ELSE {"gas limit reached", "rejected"}
      [] e.ev = "finalize" -> {"finalize"}
      [] e.ev = "commit" -> {"commit"}
      [] OTHER -> {}

\* C17: no step is retried. Each transaction is handed to the engine at most
\* once, finalization and commit are invoked at most once, a failed operation
\* is the last operation of the replay, and its cause is in the error the
\* caller gets.
NoStepRetried ==
    \A p \in Procs :
        /\ \A j, k \in 1..Len(calls[p]) :
              (calls[p][j].ev = calls[p][k].ev /\ calls[p][j].i = calls[p][k].i) => j = k
        /\ Count(p, "finalize") <= 1
        /\ Count(p, "commit") <= 1
        /\ \A k \in 1..Len(calls[p]) : ~calls[p][k].ok => k = Len(calls[p])
        /\ \A k \in 1..Len(calls[p]) :
              (~calls[p][k].ok /\ Answered(p)) =>
                 /\ ret[p][1].err # NoErr
                 /\ ret[p][1].err.cause \in CauseOf(p, calls[p][k])

\* An answered replay whose second transaction failed; nothing followed it.
NoStepRetriedWitness ==
    \E p \in Procs :
        /\ Answered(p)
        /\ Has(p, "apply", TRUE)
        /\ Has(p, "apply", FALSE)
        /\ ret[p][1].err.cause = "rejected"


\* The loop of runBlock run to its end without interruption, from transaction
\* i on; t holds the overlay, the gas pool, the used gas, the receipts and the
\* error so far.
RECURSIVE LoopAlone(_, _, _, _, _)
LoopAlone(cfg, txs, i, store, t) ==
    IF i > Len(txs) \/ t.err # NoErr THEN t
    ELSE LET r == ApplyTransaction(cfg, t.gp, t.s, [rec |-> NewChangeSetWriter, store |-> store],
                                   "noop", txs[i], t.used)
         IN LoopAlone(cfg, txs, i + 1, store,
                      IF r.err # NoErr
                      THEN [t EXCEPT !.s = r.s, !.err = TxFailed(txs, i, r.err)]
                      ELSE [s |-> r.s, gp |-> r.gp, used |-> r.usedGas,
                            rcpts |-> Append(t.rcpts, r.receipt[1]), err |-> NoErr])

\* What a request returns when it is the only one: the steps of Retrace and
\* runBlock composed in program order.
RetraceAloneWith(cfg, store, number) ==
    LET a == Atoi(number)
        l == GetBlockByNumber(store, Uint64(a.n))
    IN IF a.err # NoErr THEN [resp |-> EmptyResponse, err |-> a.err]
       ELSE IF l.err # NoErr THEN [resp |-> EmptyResponse, err |-> l.err]
       ELSE LET b == l.block[1]
                s0 == NewIntraBlockState(NewRemoteReader(Uint64(a.n)))
                s1 == IF cfg.DAOForkSupport /\ cfg.DAOForkBlock = <<b.number>>
                      THEN ApplyDAOHardFork(s0, store) ELSE s0
                t == LoopAlone(cfg, b.txs, 1, store,
                               [s |-> s1, gp |-> b.gasLimit, used |-> 0, rcpts |-> <<>>,
                                err |-> NoErr])
                f == FinalizeAndAssemble(cfg, b, t.s, store, t.rcpts)
                c == CommitBlock(f.s, [rec |-> NewChangeSetWriter, store |-> store],
                                 "changeset", b.fate, 0)
            IN IF t.err # NoErr THEN [resp |-> EmptyResponse, err |-> t.err]
               ELSE IF f.err # NoErr
               THEN [resp |-> EmptyResponse, err |-> FinalizeFailed(b, f.err)]
               ELSE IF c.err # NoErr
               THEN [resp |-> EmptyResponse, err |-> CommitFailed(b, c.err)]
               ELSE [resp |-> Output(c.env.rec, f.s.reader), err |-> NoErr]

RetraceAlone(store, number, chain) ==
    RetraceAloneWith(ReadChainConfig(store, chain), store, number)

\* C18: concurrent replays over the same store do not interfere. Under every
\* interleaving of two replays, each request is answered with the result it
\* has when it runs alone, and so is a request whose runBlock has returned
\* while the other is still running; a response is built from the request's
\* own recorder and reader, whose logs hold the lookups of its own overlay only.
ConcurrentReplaysIndependent ==
    \A p \in Procs :
        /\ Answered(p) => ret[p][1] = RetraceAlone(db, req[p].number, req[p].chain)
        /\ pc[p] = "respond" =>
              RetraceReturn(err[p], writer[p][1], ibs[p][1].reader)
                 = RetraceAlone(db, req[p].number, req[p].chain)
        /\ Succeeded(p) =>
              /\ ret[p][1].resp = Output(writer[p][1], ibs[p][1].reader)
              /\ Len(ibs[p][1].reader.accountReads) + Len(ibs[p][1].reader.storageReads)
                    = Len(ibs[p][1].asked)

\* Two replays overlapped: the runBlock of both has returned with success and
\* neither is answered yet; their recorders and readers hold different logs.
ConcurrentReplaysIndependentWitness ==
    \E p, q \in Procs :
        /\ p # q
        /\ pc[p] = "respond" /\ pc[q] = "respond"
        /\ err[p] = NoErr /\ err[q] = NoErr
        /\ writer[p][1] # writer[q][1]
        /\ ibs[p][1].reader.accountReads # ibs[q][1].reader.accountReads
        /\ writer[q][1].sto # <<>>


\* The bytes a string of hex digits stands for.
HexVal(c) == (CHOOSE i \in 1..16 : HexDigits[i] = c) - 1
IsHex(str) ==
    /\ Len(str) % 2 = 0
    /\ \A i \in 1..Len(str) : \E d \in 1..16 : HexDigits[d] = str[i]
Hex2Bytes(str) == [i \in 1..(Len(str) \div 2) |-> 16 * HexVal(str[2 * i - 1]) + HexVal(str[2 * i])]

\* The list of strings out is the list of keys, each hex-encoded, in order.
EncodesKeys(out, keys) ==
    /\ Len(out) = Len(keys)
    /\ \A i \in 1..Len(keys) : IsHex(out[i]) /\ Hex2Bytes(out[i]) = keys[i]

\* C19: on success the four lists of the response are, in this order and with
\* nothing crossed: the keys of the recorder's account change set, the
\* reader's account access log, the keys of the recorder's storage change set
\* and the reader's storage access log, each key hex-encoded.
ResponseStoreByStore ==
    \A p \in Procs :
        Succeeded(p) =>
            LET resp == ret[p][1].resp
                w == writer[p][1]
                r == ibs[p][1].reader
            IN /\ EncodesKeys(resp.Account.Writes, [i \in 1..Len(w.acc) |-> w.acc[i].key])
               /\ EncodesKeys(resp.Account.Reads, r.accountReads)
               /\ EncodesKeys(resp.Storage.Writes, [i \in 1..Len(w.sto) |-> w.sto[i].key])
               /\ EncodesKeys(resp.Storage.Reads, r.storageReads)

\* A successful replay whose four logs are all different and not empty, with a
\* repeated key in the account reads.
ResponseStoreByStoreWitness ==
    \E p \in Procs :
        /\ Succeeded(p)
        /\ LET resp == ret[p][1].resp
           IN /\ Len(resp.Account.Writes) >= 2
              /\ Len(resp.Storage.Writes) >= 2
              /\ resp.Storage.Reads # <<>>
              /\ \E i, j \in 1..Len(resp.Account.Reads) :
                    i # j /\ resp.Account.Reads[i] = resp.Account.Reads[j]
              /\ Cardinality({resp.Account.Writes, resp.Account.Reads,
                              resp.Storage.Writes, resp.Storage.Reads}) = 4


\* C20: the handler answers 200 with the trace as the body exactly when
\* Retrace returned no error; whenever Retrace returned an error it answers
\* 500 with that error and no body. It answers when Retrace returns and not
\* before.
HandlerStatusFollowsError ==
    \A p \in Procs :
        /\ (http[p] # <<>>) = (ret[p] # <<>>)
        /\ http[p] # <<>> =>
              LET h == http[p][1]
                  r == ret[p][1]
              IN /\ h.status \in {200, 500}
                 /\ (h.status = 200) = (r.err = NoErr)
                 /\ h.status = 200 => h.body = <<r.resp>> /\ h.errors = <<>>
                 /\ h.status = 500 => h.body = <<>> /\ h.errors = <<r.err>>

\* One request was answered 200 with a trace, another 500 after the locator
\* had been asked for its block.
HandlerStatusFollowsErrorWitness ==
    \E p, q \in Procs :
        /\ http[p] # <<>> /\ http[p][1].status = 200
        /\ http[p][1].body[1].Account.Writes # <<>>
        /\ http[q] # <<>> /\ http[q][1].status = 500
        /\ Invoked(q, "locate")


\* The genesis hash a chain name stands for, if any.
GenesisOf ==
    ("mainnet" :> MainnetGenesisHash) @@ ("testnet" :> RopstenGenesisHash)
    @@ ("rinkeby" :> RinkebyGenesisHash) @@ ("goerli" :> GoerliGenesisHash)

\* The configuration of the chain is resolved: the name is known and its
\* document is in the store, can be read and decodes.
Resolves(store, chain) ==
    /\ chain \in DOMAIN GenesisOf
    /\ GenesisOf[chain] \in DOMAIN store.config
    /\ ~store.config[GenesisOf[chain]].readErr
    /\ store.config[GenesisOf[chain]].json

OpsDone(p) ==
    LET b == block[p][1]
        ran == txi[p] + (IF Has(p, "apply", FALSE) /\ err[p].cause = "rejected" THEN 1 ELSE 0)
    IN OpsBefore(p, ran)
       \o (IF Has(p, "finalize", TRUE)
           THEN <<Rd("acc", b.coinbase), Wr("acc", b.coinbase, 5 + Len(receipts[p]))>>
           ELSE <<>>)

\* The reads of one store among ops that no earlier write of ops overrides.
NotOverridden(ops, kind) ==
    {i \in 1..Len(ops) :
        /\ ops[i].op = "r" /\ ops[i].kind = kind
        /\ ~\E j \in 1..(i - 1) :
              ops[j].op = "w" /\ ops[j].kind = kind /\ ops[j].key = ops[i].key}

\* The keys at a set of positions of ops, in order.
RECURSIVE KeysAt(_, _, _)
KeysAt(ops, I, i) ==
    IF i > Len(ops) THEN <<>>
    ELSE (IF i \in I THEN <<ops[i].key>> ELSE <<>>) \o KeysAt(ops, I, i + 1)

\* C22: overlay reads consult the pending mutations first. The reader's access
\* logs hold, in order, exactly the reads requested for a key that no earlier
\* step of the replay had written; a read of a key written earlier adds no
\* entry.
ReadsConsultPendingFirst ==
    \A p \in Procs :
        (ibs[p] # <<>> /\ pc[p] # "init") =>
            LET ops == OpsDone(p)
                r == ibs[p][1].reader
            IN /\ r.accountReads = KeysAt(ops, NotOverridden(ops, "acc"), 1)
               /\ r.storageReads = KeysAt(ops, NotOverridden(ops, "sto"), 1)

\* A finished replay in which reads of both stores were served from pending
\* mutations and others fell through to the reader.
ReadsConsultPendingFirstWitness ==
    \E p \in Procs :
        /\ Succeeded(p)
        /\ LET ops == OpsDone(p)
               reads(kind) == {i \in 1..Len(ops) : ops[i].op = "r" /\ ops[i].kind = kind}
           IN /\ NotOverridden(ops, "acc") # {} /\ NotOverridden(ops, "sto") # {}
              /\ reads("acc") \ NotOverridden(ops, "acc") # {}
              /\ reads("sto") \ NotOverridden(ops, "sto") # {}


\* C23: at Init the gas pool holds the block's gas limit, the used-gas counter
\* is zero and there is no receipt; the one pool and the one counter go
\* through all transactions: after k transactions the pool holds the limit
\* less the gas of those k and the counter their sum, and the engine refuses
\* transaction k + 1 for gas exactly when what is left does not cover it.
GasPoolSharedAcrossTxs ==
    \A p \in Procs :
        (ibs[p] # <<>> /\ block[p] # <<>> /\ pc[p] \notin {"init", "panic"}) =>
            LET b == block[p][1]
                spent == SumGas(b.txs, txi[p])
            IN /\ pc[p] = "fork" => gp[p] = b.gasLimit /\ usedGas[p] = 0 /\ receipts[p] = <<>>
               /\ gp[p] = b.gasLimit - spent
               /\ usedGas[p] = spent
               /\ Len(receipts[p]) = txi[p]
               /\ Has(p, "apply", FALSE) =>
                     ((err[p].cause = "gas limit reached") = (b.gasLimit - spent < b.txs[txi[p] + 1].gas))

\* The second transaction was refused for gas that the first had consumed: the
\* block's limit covers it alone.
GasPoolSharedAcrossTxsWitness ==
    \E p \in Procs :
        /\ Answered(p)
        /\ txi[p] >= 1
        /\ Has(p, "apply", FALSE)
        /\ err[p].cause = "gas limit reached"
        /\ block[p][1].txs[txi[p] + 1].gas <= block[p][1].gasLimit


\* list is the first entries of full, in the same order.
IsPrefix(list, full) == Len(list) <= Len(full) /\ list = SubSeq(full, 1, Len(list))

\* C24: the block-scoped recorder receives nothing before the commit: through
\* the one-time transition, every transaction and finalization its account
\* and storage logs are empty, whatever the overlay has pending; what it holds
\* afterwards is what the one commit flushed from the overlay.
RecorderEmptyBeforeCommit ==
    \A p \in Procs :
        writer[p] # <<>> =>
            LET w == writer[p][1]
                s == ibs[p][1]
            IN /\ ~Invoked(p, "commit") =>
                     /\ GetAccountChanges(w).Changes = <<>>
                     /\ GetStorageChanges(w).Changes = <<>>
               /\ Invoked(p, "commit") =>
                     /\ IsPrefix(GetAccountChanges(w).Changes, s.acc)
                     /\ IsPrefix(GetStorageChanges(w).Changes, s.sto)

\* The transition, two transactions and finalization have filled the overlay
\* with account and storage mutations and the commit is about to start.
RecorderEmptyBeforeCommitWitness ==
    \E p \in Procs :
        /\ pc[p] = "commit"
        /\ Invoked(p, "fork")
        /\ txi[p] >= 2
        /\ Len(ibs[p][1].acc) >= 3
        /\ ibs[p][1].sto # <<>>


ReaderBoundToLocatedHeight ==
    \A p \in Procs :
        /\ \A k \in 1..Len(calls[p]) :
              calls[p][k].ev = "locate" => calls[p][k].i = Uint64(Atoi(req[p].number).n)
        /\ ibs[p] # <<>> =>
              /\ Has(p, "locate", TRUE)
              /\ ibs[p][1].reader.height = calls[p][1].i
              /\ ibs[p][1].reader.height = Uint64(Atoi(req[p].number).n)
              /\ ibs[p][1].reader.height = block[p][1].number

\* Replays of height 1, one asked for as "+1", and of height 0 have their
\* readers.
ReaderBoundToLocatedHeightWitness ==
    /\ \E p \in Procs :
          /\ ibs[p] # <<>>
          /\ req[p].number = <<"+", "1">>
          /\ ibs[p][1].reader.height = 1
          /\ ibs[p][1].reader.accountReads # <<>>
    /\ \E q \in Procs :
          /\ ibs[q] # <<>>
          /\ ibs[q][1].reader.height = 0

====
